---------------------------- MODULE Spec2Model ----------------------------
(***************************************************************************)
(* Model of the task-automation HTTP service in src/main.py: the /run and  *)
(* /read endpoints, the keyword dispatcher TaskHandler.handle_task and the  *)
(* ten handlers, running on one asyncio event loop over a file system.      *)
(*                                                                          *)
(* Python str values are sequences of one-character strings, so that        *)
(* lower(), strip(), the `in` substring test, startswith() and the          *)
(* code-point order of < are computed and not assumed.                      *)
(***************************************************************************)
EXTENDS Integers, Sequences, FiniteSets, TLC

(***************************************************************************)
(* Bounds of the model.                                                     *)
(***************************************************************************)
NumRequests == 2      \* request slots that can be in flight together
MaxWords    == 3      \* words of a task text (dispatcher specification)
MaxContacts == 3      \* entries of contacts.json (sort specification)
MaxComments == 3      \* raw lines of comments.txt (similarity specification)
MaxLineLen  == 2      \* characters of a raw comment line
MaxLines    == 3      \* raw lines of dates.txt (weekday specification)

(***************************************************************************)
(* Python str primitives.                                                   *)
(***************************************************************************)
UpperCase == <<"A", "B", "C", "D", "E", "F", "G", "H", "I", "J", "K", "L", "M",
               "N", "O", "P", "Q", "R", "S", "T", "U", "V", "W", "X", "Y", "Z">>
LowerCase == <<"a", "b", "c", "d", "e", "f", "g", "h", "i", "j", "k", "l", "m",
               "n", "o", "p", "q", "r", "s", "t", "u", "v", "w", "x", "y", "z">>
Digits    == <<"0", "1", "2", "3", "4", "5", "6", "7", "8", "9">>
Whitespace == {" ", "\t", "\n", "\r"}

IndexOf(c, seq) == IF \E i \in 1..Len(seq) : seq[i] = c
                   THEN CHOOSE i \in 1..Len(seq) : seq[i] = c
                   ELSE 0

\* ord(c) for the characters the model uses (ASCII).
Ord(c) == CASE c = "\t" -> 9
            [] c = "\n" -> 10
            [] c = "\r" -> 13
            [] c = " " -> 32
            [] c = "!" -> 33
            [] c = "#" -> 35
            [] c = "-" -> 45
            [] c = "." -> 46
            [] c = "/" -> 47
            [] IndexOf(c, Digits) > 0 -> 47 + IndexOf(c, Digits)
            [] c = ":" -> 58
            [] c = "@" -> 64
            [] IndexOf(c, UpperCase) > 0 -> 64 + IndexOf(c, UpperCase)
            [] c = "_" -> 95
            [] IndexOf(c, LowerCase) > 0 -> 96 + IndexOf(c, LowerCase)
            [] OTHER -> 127

\* the lowercase letter of each uppercase letter
UpperToLower ==
    [c \in {UpperCase[i] : i \in 1..Len(UpperCase)} |-> LowerCase[IndexOf(c, UpperCase)]]

LowerChar(c) == IF c \in DOMAIN UpperToLower THEN UpperToLower[c] ELSE c

\* str.lower()
Lower(s) == [i \in 1..Len(s) |-> LowerChar(s[i])]

\* s.startswith(prefix)
StartsWith(s, prefix) ==
    /\ Len(prefix) <= Len(s)
    /\ \A i \in 1..Len(prefix) : s[i] = prefix[i]

\* s.endswith(suffix)
EndsWith(s, suffix) ==
    /\ Len(suffix) <= Len(s)
    /\ \A i \in 1..Len(suffix) : s[Len(s) - Len(suffix) + i] = suffix[i]

\* sub in s
Contains(s, sub) ==
    \E i \in 0..(Len(s) - Len(sub)) : \A k \in 1..Len(sub) : s[i + k] = sub[k]

\* str.strip(): leading and trailing whitespace removed
Strip(s) ==
    LET keep == {i \in 1..Len(s) : s[i] \notin Whitespace}
    IN  IF keep = {} THEN <<>>
        ELSE LET lo == CHOOSE i \in keep : \A j \in keep : i <= j
                 hi == CHOOSE i \in keep : \A j \in keep : j <= i
             IN  SubSeq(s, lo, hi)

\* a < b on str: lexicographic by code point
StrLess(a, b) ==
    \/ /\ Len(a) < Len(b)
       /\ \A i \in 1..Len(a) : a[i] = b[i]
    \/ \E i \in 1..(IF Len(a) < Len(b) THEN Len(a) ELSE Len(b)) :
          /\ \A k \in 1..(i - 1) : a[k] = b[k]
          /\ Ord(a[i]) < Ord(b[i])

\* sep.join(parts)
RECURSIVE Join(_, _)
Join(parts, sep) ==
    IF parts = <<>> THEN <<>>
    ELSE IF Len(parts) = 1 THEN parts[1]
    ELSE parts[1] \o sep \o Join(Tail(parts), sep)

\* str(n) for n >= 0
RECURSIVE Str(_)
Str(n) == IF n < 10 THEN <<Digits[n + 1]>> ELSE Str(n \div 10) \o <<Digits[(n % 10) + 1]>>

\* int(s) for a string of decimal digits
RECURSIVE Int_(_)
Int_(s) == IF s = <<>> THEN 0
           ELSE 10 * Int_(SubSeq(s, 1, Len(s) - 1)) + (IndexOf(s[Len(s)], Digits) - 1)

IsDigit(c) == IndexOf(c, Digits) > 0

K_datagen == <<"d", "a", "t", "a", "g", "e", "n">>
K_generate_data == <<"g", "e", "n", "e", "r", "a", "t", "e", " ", "d", "a", "t", "a">>
K_format == <<"f", "o", "r", "m", "a", "t">>
K_prettier == <<"p", "r", "e", "t", "t", "i", "e", "r">>
K_wednesday == <<"w", "e", "d", "n", "e", "s", "d", "a", "y">>
K_date == <<"d", "a", "t", "e">>
K_sort_contacts == <<"s", "o", "r", "t", " ", "c", "o", "n", "t", "a", "c", "t", "s">>
K_recent_logs == <<"r", "e", "c", "e", "n", "t", " ", "l", "o", "g", "s">>
K_extract_headers ==
    <<"e", "x", "t", "r", "a", "c", "t", " ", "h", "e", "a", "d", "e", "r", "s">>
K_extract_email == <<"e", "x", "t", "r", "a", "c", "t", " ", "e", "m", "a", "i", "l">>
K_extract_card == <<"e", "x", "t", "r", "a", "c", "t", " ", "c", "a", "r", "d">>
K_similar_comments ==
    <<"s", "i", "m", "i", "l", "a", "r", " ", "c", "o", "m", "m", "e", "n", "t", "s">>
K_most_similar == <<"m", "o", "s", "t", " ", "s", "i", "m", "i", "l", "a", "r">>
K_ticket_sales == <<"t", "i", "c", "k", "e", "t", " ", "s", "a", "l", "e", "s">>
UnknownTaskPrefix == <<"U", "n", "k", "n", "o", "w", "n", " ", "t", "a", "s", "k", ":", " ">>
DataRoot == <<"/", "d", "a", "t", "a", "/">>
TmpDatagenPy == <<"/", "t", "m", "p", "/", "d", "a", "t", "a", "g", "e", "n", ".", "p", "y">>
FormatMd == <<"/", "d", "a", "t", "a", "/", "f", "o", "r", "m", "a", "t", ".", "m", "d">>
DatesTxt == <<"/", "d", "a", "t", "a", "/", "d", "a", "t", "e", "s", ".", "t", "x", "t">>
DatesWednesdaysTxt ==
    <<"/", "d", "a", "t", "a", "/", "d", "a", "t", "e", "s", "-", "w", "e", "d", "n", "e", "s", "d", "a", "y", "s", ".", "t", "x", "t">>
ContactsJson ==
    <<"/", "d", "a", "t", "a", "/", "c", "o", "n", "t", "a", "c", "t", "s", ".", "j", "s", "o", "n">>
ContactsSortedJson ==
    <<"/", "d", "a", "t", "a", "/", "c", "o", "n", "t", "a", "c", "t", "s", "-", "s", "o", "r", "t", "e", "d", ".", "j", "s", "o", "n">>
LogsDir == <<"/", "d", "a", "t", "a", "/", "l", "o", "g", "s", "/">>
LogsRecentTxt ==
    <<"/", "d", "a", "t", "a", "/", "l", "o", "g", "s", "-", "r", "e", "c", "e", "n", "t", ".", "t", "x", "t">>
DocsDir == <<"/", "d", "a", "t", "a", "/", "d", "o", "c", "s", "/">>
DocsIndexJson ==
    <<"/", "d", "a", "t", "a", "/", "d", "o", "c", "s", "/", "i", "n", "d", "e", "x", ".", "j", "s", "o", "n">>
EmailTxt == <<"/", "d", "a", "t", "a", "/", "e", "m", "a", "i", "l", ".", "t", "x", "t">>
EmailSenderTxt ==
    <<"/", "d", "a", "t", "a", "/", "e", "m", "a", "i", "l", "-", "s", "e", "n", "d", "e", "r", ".", "t", "x", "t">>
CreditCardPng ==
    <<"/", "d", "a", "t", "a", "/", "c", "r", "e", "d", "i", "t", "-", "c", "a", "r", "d", ".", "p", "n", "g">>
CreditCardTxt ==
    <<"/", "d", "a", "t", "a", "/", "c", "r", "e", "d", "i", "t", "-", "c", "a", "r", "d", ".", "t", "x", "t">>
CommentsTxt ==
    <<"/", "d", "a", "t", "a", "/", "c", "o", "m", "m", "e", "n", "t", "s", ".", "t", "x", "t">>
CommentsSimilarTxt ==
    <<"/", "d", "a", "t", "a", "/", "c", "o", "m", "m", "e", "n", "t", "s", "-", "s", "i", "m", "i", "l", "a", "r", ".", "t", "x", "t">>
TicketSalesDb ==
    <<"/", "d", "a", "t", "a", "/", "t", "i", "c", "k", "e", "t", "-", "s", "a", "l", "e", "s", ".", "d", "b">>
TicketSalesGoldTxt ==
    <<"/", "d", "a", "t", "a", "/", "t", "i", "c", "k", "e", "t", "-", "s", "a", "l", "e", "s", "-", "g", "o", "l", "d", ".", "t", "x", "t">>

(***************************************************************************)
(* The file system: a function from canonical absolute paths to entries     *)
(* [kind, data, mtime], kind being "dir", "text" or "binary".  os.path and  *)
(* open() resolve a path lexically here (no symbolic links).                *)
(***************************************************************************)
RECURSIVE Split(_)
\* the components of a path: the pieces between "/", empty ones dropped
Split(path) ==
    IF path = <<>> THEN <<>>
    ELSE IF path[1] = "/" THEN Split(Tail(path))
    ELSE LET stops == {i \in 1..Len(path) : path[i] = "/"}
             n == IF stops = {} THEN Len(path)
                  ELSE (CHOOSE i \in stops : \A j \in stops : i <= j) - 1
         IN  <<SubSeq(path, 1, n)>> \o Split(SubSeq(path, n + 1, Len(path)))

RECURSIVE Normalize(_, _)
\* "." is dropped and ".." removes the component before it
Normalize(comps, acc) ==
    IF comps = <<>> THEN acc
    ELSE IF comps[1] = <<".">> THEN Normalize(Tail(comps), acc)
    ELSE IF comps[1] = <<".", ".">>
         THEN Normalize(Tail(comps), IF acc = <<>> THEN acc ELSE SubSeq(acc, 1, Len(acc) - 1))
    ELSE Normalize(Tail(comps), Append(acc, comps[1]))

Canon(path) == <<"/">> \o Join(Normalize(Split(path), <<>>), <<"/">>)

Parent(path) ==
    LET comps == Normalize(Split(path), <<>>)
    IN  <<"/">> \o Join(SubSeq(comps, 1, Len(comps) - 1), <<"/">>)

TrailingSlash(path) == path # <<>> /\ path[Len(path)] = "/"

\* os.path.exists(path)
Exists(f, path) ==
    /\ Canon(path) \in DOMAIN f
    /\ TrailingSlash(path) => f[Canon(path)].kind = "dir"

\* open(path, 'r') succeeds and read() decodes
Readable(f, path) == Exists(f, path) /\ f[Canon(path)].kind = "text"

\* f.read()
ReadData(f, path) == f[Canon(path)].data

\* open(path, 'w') succeeds: the directory is there and the path is no directory
Writable(f, path) ==
    /\ ~TrailingSlash(path)
    /\ Parent(path) \in DOMAIN f
    /\ f[Parent(path)].kind = "dir"
    /\ Canon(path) \in DOMAIN f => f[Canon(path)].kind # "dir"

TextFile(data) == [kind |-> "text", data |-> data, mtime |-> 0]
Directory == [kind |-> "dir", data |-> <<>>, mtime |-> 0]

\* the file system after open(path, 'w') and f.write(data)
WriteFile(f, path, data) ==
    [q \in DOMAIN f \cup {Canon(path)} |-> IF q = Canon(path) THEN TextFile(data) ELSE f[q]]

(***************************************************************************)
(* What a handler does: it returns a result or raises, it leaves a file     *)
(* system, and it has written the paths in `writes`.                        *)
(***************************************************************************)
HTTPException(status_code, detail) ==
    [exc |-> "HTTPException", status_code |-> status_code, detail |-> detail]
ValueError(msg) == [exc |-> "ValueError", status_code |-> 0, detail |-> msg]
OtherError(name) == [exc |-> name, status_code |-> 0, detail |-> <<name>>]

Raises(e, f) == [raised |-> e, result |-> <<>>, fs |-> f, writes |-> {}]
Returns(result, f, writes) ==
    [raised |-> [exc |-> "none", status_code |-> 0, detail |-> <<>>],
     result |-> result, fs |-> f, writes |-> writes]

\* with open(output_file, 'w') as f: f.write(data); return result
WriteAndReturn(f, output_file, data, result) ==
    IF Writable(f, output_file)
    THEN Returns(result, WriteFile(f, output_file, data), {output_file})
    ELSE Raises(OtherError("OSError"), f)

(***************************************************************************)
(* TaskHandler.handle_task: the keyword chain.                              *)
(***************************************************************************)
\* the two words of the sort-contacts phrase
K_sort == <<"s", "o", "r", "t">>
K_contact == <<"c", "o", "n", "t", "a", "c", "t">>

\* the keyword predicates, on the lowercased text
matches_datagen(lower_task) ==
    Contains(lower_task, K_datagen) \/ Contains(lower_task, K_generate_data)
matches_format_file(lower_task) ==
    Contains(lower_task, K_format) /\ Contains(lower_task, K_prettier)
matches_count_wednesdays(lower_task) ==
    Contains(lower_task, K_wednesday) /\ Contains(lower_task, K_date)
\* a faulty variant: the two words anywhere, in place of the phrase
matches_sort_contacts_words(lower_task) ==
    Contains(lower_task, K_sort) /\ Contains(lower_task, K_contact)
matches_sort_contacts(lower_task) == Contains(lower_task, K_sort_contacts)
matches_recent_logs(lower_task) == Contains(lower_task, K_recent_logs)
matches_extract_headers(lower_task) == Contains(lower_task, K_extract_headers)
matches_extract_email(lower_task) == Contains(lower_task, K_extract_email)
matches_extract_card(lower_task) == Contains(lower_task, K_extract_card)
matches_similar_comments(lower_task) ==
    Contains(lower_task, K_similar_comments) \/ Contains(lower_task, K_most_similar)
matches_ticket_sales(lower_task) == Contains(lower_task, K_ticket_sales)

\* a faulty variant: the sort-contacts test moved to the head of the chain
handle_task_sort_first(task_description) ==
    LET lower_task == Lower(task_description)
    IN  IF matches_sort_contacts(lower_task) THEN "handle_sort_contacts"
        ELSE IF matches_datagen(lower_task) THEN "handle_datagen"
        ELSE IF matches_format_file(lower_task) THEN "handle_format_file"
        ELSE IF matches_count_wednesdays(lower_task) THEN "handle_count_wednesdays"
        ELSE IF matches_recent_logs(lower_task) THEN "handle_recent_logs"
        ELSE IF matches_extract_headers(lower_task) THEN "handle_extract_headers"
        ELSE IF matches_extract_email(lower_task) THEN "handle_extract_email"
        ELSE IF matches_extract_card(lower_task) THEN "handle_extract_card"
        ELSE IF matches_similar_comments(lower_task) THEN "handle_similar_comments"
        ELSE IF matches_ticket_sales(lower_task) THEN "handle_ticket_sales"
        ELSE "ValueError"

\* the handler handle_task calls, "ValueError" where it raises
handle_task(task_description) ==
    LET lower_task == Lower(task_description)
    IN  IF matches_datagen(lower_task) THEN "handle_datagen"
        ELSE IF matches_format_file(lower_task) THEN "handle_format_file"
        ELSE IF matches_count_wednesdays(lower_task) THEN "handle_count_wednesdays"
        ELSE IF matches_sort_contacts(lower_task) THEN "handle_sort_contacts"
        ELSE IF matches_recent_logs(lower_task) THEN "handle_recent_logs"
        ELSE IF matches_extract_headers(lower_task) THEN "handle_extract_headers"
        ELSE IF matches_extract_email(lower_task) THEN "handle_extract_email"
        ELSE IF matches_extract_card(lower_task) THEN "handle_extract_card"
        ELSE IF matches_similar_comments(lower_task) THEN "handle_similar_comments"
        ELSE IF matches_ticket_sales(lower_task) THEN "handle_ticket_sales"
        ELSE "ValueError"

(***************************************************************************)
(* A3: datetime.strptime(line, "%Y-%m-%d") and weekday().  strptime         *)
(* matches the regular expression                                           *)
(*   (\d\d\d\d)-(1[0-2]|0[1-9]|[1-9])-(3[0-1]|[1-2]\d|0[1-9]|[1-9]| [1-9]) *)
(* at the start of the line, alternatives tried in that order, and fails    *)
(* when characters remain after the match or the date does not exist.       *)
(***************************************************************************)
At(s, i) == IF i >= 1 /\ i <= Len(s) THEN s[i] ELSE ""
DigitVal(c) == IndexOf(c, Digits) - 1
NonZeroDigit(c) == IsDigit(c) /\ c # "0"

\* the month alternatives matching at position p, in order: <<value, next position>>
MonthAlternatives(s, p) ==
    (IF At(s, p) = "1" /\ At(s, p + 1) \in {"0", "1", "2"}
     THEN << <<10 + DigitVal(At(s, p + 1)), p + 2>> >> ELSE <<>>)
    \o (IF At(s, p) = "0" /\ NonZeroDigit(At(s, p + 1))
        THEN << <<DigitVal(At(s, p + 1)), p + 2>> >> ELSE <<>>)
    \o (IF NonZeroDigit(At(s, p)) THEN << <<DigitVal(At(s, p)), p + 1>> >> ELSE <<>>)

\* the day alternatives matching at position p, in order
DayAlternatives(s, p) ==
    (IF At(s, p) = "3" /\ At(s, p + 1) \in {"0", "1"}
     THEN << <<30 + DigitVal(At(s, p + 1)), p + 2>> >> ELSE <<>>)
    \o (IF At(s, p) \in {"1", "2"} /\ IsDigit(At(s, p + 1))
        THEN << <<10 * DigitVal(At(s, p)) + DigitVal(At(s, p + 1)), p + 2>> >> ELSE <<>>)
    \o (IF At(s, p) = "0" /\ NonZeroDigit(At(s, p + 1))
        THEN << <<DigitVal(At(s, p + 1)), p + 2>> >> ELSE <<>>)
    \o (IF NonZeroDigit(At(s, p)) THEN << <<DigitVal(At(s, p)), p + 1>> >> ELSE <<>>)
    \o (IF At(s, p) = " " /\ NonZeroDigit(At(s, p + 1))
        THEN << <<DigitVal(At(s, p + 1)), p + 2>> >> ELSE <<>>)

is_leap(year) == year % 4 = 0 /\ (year % 100 # 0 \/ year % 400 = 0)

days_in_month(year, month) ==
    IF month = 2 THEN (IF is_leap(year) THEN 29 ELSE 28)
    ELSE IF month \in {4, 6, 9, 11} THEN 30 ELSE 31

RECURSIVE days_before_month(_, _)
days_before_month(year, month) ==
    IF month = 1 THEN 0
    ELSE days_before_month(year, month - 1) + days_in_month(year, month - 1)

days_before_year(year) ==
    LET y == year - 1 IN y * 365 + (y \div 4) - (y \div 100) + (y \div 400)

\* date.toordinal(): 1 for 0001-01-01
toordinal(year, month, day) == days_before_year(year) + days_before_month(year, month) + day

\* a faulty variant: the ordinal taken as the weekday, Monday = 1
weekday_of_ordinal(year, month, day) == toordinal(year, month, day) % 7

\* datetime.weekday(): Monday = 0
weekday(year, month, day) == (toordinal(year, month, day) + 6) % 7

NoDate == [ok |-> FALSE, year |-> 0, month |-> 0, day |-> 0]

\* datetime.strptime(line, "%Y-%m-%d"); ok is FALSE where strptime raises ValueError
strptime(line) ==
    IF ~(\A i \in 1..4 : IsDigit(At(line, i))) \/ At(line, 5) # "-" THEN NoDate
    ELSE LET year == Int_(SubSeq(line, 1, 4))
             months == MonthAlternatives(line, 6)
             \* backtracking: the first month alternative after which "-" and a day match
             fits == {i \in 1..Len(months) :
                        /\ At(line, months[i][2]) = "-"
                        /\ DayAlternatives(line, months[i][2] + 1) # <<>>}
         IN  IF fits = {} THEN NoDate
             ELSE LET m == months[CHOOSE i \in fits : \A j \in fits : i <= j]
                      d == DayAlternatives(line, m[2] + 1)[1]
                  IN  IF d[2] # Len(line) + 1 THEN NoDate      \* unconverted data remains
                      ELSE IF year < 1 \/ d[1] > days_in_month(year, m[1]) THEN NoDate
                      ELSE [ok |-> TRUE, year |-> year, month |-> m[1], day |-> d[1]]

WEDNESDAY == 2

\* one pass of the loop body of handle_count_wednesdays: the count after `raw`
CountLine(count, raw) ==
    LET line == Strip(raw)
    IN  IF line = <<>> THEN count
        ELSE LET dt == strptime(line)
             IN  IF ~dt.ok THEN count
                 ELSE IF weekday(dt.year, dt.month, dt.day) = WEDNESDAY THEN count + 1
                 ELSE count

RECURSIVE CountWednesdays(_, _)
\* for line in f: ...
CountWednesdays(lines, count) ==
    IF lines = <<>> THEN count
    ELSE CountWednesdays(Tail(lines), CountLine(count, lines[1]))

dates_input_file == DatesTxt
dates_output_file == DatesWednesdaysTxt

handle_count_wednesdays(f) ==
    IF ~Exists(f, dates_input_file)
    THEN Raises(HTTPException(404, <<"File not found: ">> \o dates_input_file), f)
    ELSE LET count == CountWednesdays(ReadData(f, dates_input_file), 0)
         IN  WriteAndReturn(f, dates_output_file, Str(count),
                            [status |-> "success", wednesdays_count |-> count])

(***************************************************************************)
(* A4: sorted(contacts, key=lambda x: (x.get('last_name', ''),              *)
(* x.get('first_name', ''))).  A contact is a function from field names to  *)
(* str; list.sort is a stable insertion into the sorted prefix.             *)
(***************************************************************************)
Get(x, field, default) == IF field \in DOMAIN x THEN x[field] ELSE default

\* a faulty variant: the two fields of the key exchanged
SortKey_first_name_first(x) == <<Get(x, "first_name", <<>>), Get(x, "last_name", <<>>)>>

SortKey(x) == <<Get(x, "last_name", <<>>), Get(x, "first_name", <<>>)>>

\* k1 < k2 on tuples of two str
KeyLess(k1, k2) == StrLess(k1[1], k2[1]) \/ (k1[1] = k2[1] /\ StrLess(k1[2], k2[2]))

\* x goes after every element that is not greater than it
InsertSorted(acc, x) ==
    LET later == {i \in 1..Len(acc) : KeyLess(SortKey(x), SortKey(acc[i]))}
        at == IF later = {} THEN Len(acc) + 1 ELSE CHOOSE i \in later : \A j \in later : i <= j
    IN  SubSeq(acc, 1, at - 1) \o <<x>> \o SubSeq(acc, at, Len(acc))

RECURSIVE SortedInto(_, _)
SortedInto(acc, rest) ==
    IF rest = <<>> THEN acc ELSE SortedInto(InsertSorted(acc, rest[1]), Tail(rest))

sorted(contacts) == SortedInto(<<>>, contacts)

contacts_input_file == ContactsJson
contacts_output_file == ContactsSortedJson
\* json.load(f): the file holds [ok |-> TRUE, value |-> the array] or is no JSON
json_ok(data) == data.ok
json_value(data) == data.value

handle_sort_contacts(f) ==
    IF ~Exists(f, contacts_input_file)
    THEN Raises(HTTPException(404, <<"Input file not found: ">> \o contacts_input_file), f)
    ELSE IF ~json_ok(ReadData(f, contacts_input_file))
    THEN Raises(ValueError(<<"JSONDecodeError">>), f)     \* json.load raises a ValueError
    ELSE LET sorted_contacts == sorted(json_value(ReadData(f, contacts_input_file)))
         IN  WriteAndReturn(f, contacts_output_file, sorted_contacts,
                            [status |-> "success", contacts_sorted |-> Len(sorted_contacts)])

(***************************************************************************)
(* A9: difflib.SequenceMatcher(None, a, b).ratio() and the pairwise scan.   *)
(* Positions are 0-based and ranges half open, as in difflib.               *)
(***************************************************************************)
\* a[i : i+k] == b[j : j+k]
BlockMatches(a, b, i, j, k) == \A d \in 1..k : a[i + d] = b[j + d]

\* the longest block in a[alo:ahi] and b[blo:bhi]; of the longest, the one that
\* starts earliest in a, and of those the one that starts earliest in b
find_longest_match(a, b, alo, ahi, blo, bhi) ==
    LET blocks == {blk \in (alo..(ahi - 1)) \X (blo..(bhi - 1)) \X (1..(ahi - alo)) :
                      /\ blk[1] + blk[3] <= ahi
                      /\ blk[2] + blk[3] <= bhi
                      /\ BlockMatches(a, b, blk[1], blk[2], blk[3])}
    IN  IF blocks = {} THEN <<alo, blo, 0>>
        ELSE CHOOSE x \in blocks : \A y \in blocks :
                \/ x[3] > y[3]
                \/ x[3] = y[3] /\ x[1] < y[1]
                \/ x[3] = y[3] /\ x[1] = y[1] /\ x[2] <= y[2]

RECURSIVE MatchedSize(_, _, _, _, _, _)
\* get_matching_blocks: the sizes of the blocks found, summed
MatchedSize(a, b, alo, ahi, blo, bhi) ==
    LET m == find_longest_match(a, b, alo, ahi, blo, bhi)
        i == m[1]
        j == m[2]
        k == m[3]
    IN  IF k = 0 THEN 0
        ELSE k + (IF alo < i /\ blo < j THEN MatchedSize(a, b, alo, i, blo, j) ELSE 0)
               + (IF i + k < ahi /\ j + k < bhi
                  THEN MatchedSize(a, b, i + k, ahi, j + k, bhi) ELSE 0)

\* ratio() = 2.0 * matches / (len(a) + len(b)), kept as <<numerator, denominator>>
ratio(a, b) ==
    IF Len(a) + Len(b) = 0 THEN <<1, 1>>
    ELSE <<2 * MatchedSize(a, b, 0, Len(a), 0, Len(b)), Len(a) + Len(b)>>

\* r1 > r2
RatioGreater(r1, r2) == r1[1] * r2[2] > r2[1] * r1[2]

\* comments = [line.strip() for line in f if line.strip()]
RECURSIVE NonEmptyStripped(_)
NonEmptyStripped(lines) ==
    IF lines = <<>> THEN <<>>
    ELSE (IF Strip(lines[1]) # <<>> THEN <<Strip(lines[1])>> ELSE <<>>)
         \o NonEmptyStripped(Tail(lines))

\* the body of the inner loop: best so far after looking at the pair (i, j)
ScanPair(best, comments, i, j) ==
    LET r == ratio(comments[i], comments[j])
    IN  IF RatioGreater(r, best.best_ratio)
        THEN [best_ratio |-> r, best_pair |-> <<comments[i], comments[j]>>]
        ELSE best

RECURSIVE ScanFrom(_, _, _, _)
\* for i in range(len(comments)): for j in range(i+1, len(comments)): ...
ScanFrom(best, comments, i, j) ==
    IF i > Len(comments) THEN best
    ELSE IF j > Len(comments) THEN ScanFrom(best, comments, i + 1, i + 2)
    ELSE ScanFrom(ScanPair(best, comments, i, j), comments, i, j + 1)

MostSimilar(comments) ==
    ScanFrom([best_ratio |-> <<0, 1>>, best_pair |-> << <<>>, <<>> >>], comments, 1, 2)

comments_input_file == CommentsTxt
comments_output_file == CommentsSimilarTxt

handle_similar_comments(f) ==
    IF ~Exists(f, comments_input_file)
    THEN Raises(HTTPException(404, <<"File not found: ">> \o comments_input_file), f)
    ELSE LET comments == NonEmptyStripped(ReadData(f, comments_input_file))
         IN  IF Len(comments) < 2
             THEN Raises(HTTPException(400, <<"Not enough comments to compare">>), f)
             ELSE LET best == MostSimilar(comments)
                  IN  WriteAndReturn(f, comments_output_file,
                                     best.best_pair[1] \o <<"\n">> \o best.best_pair[2],
                                     [status |-> "success", similarity_ratio |-> best.best_ratio])

(***************************************************************************)
(* A5: the first lines of the ten most recently modified /data/logs/*.log   *)
(***************************************************************************)
RECENT_LOGS_LIMIT == 10
DotLog == <<".", "l", "o", "g">>
DotMd == <<".", "m", "d">>

\* glob.glob("/data/logs/*.log"): the entries of the directory named *.log
GlobLogs(f) ==
    {q \in DOMAIN f : /\ Parent(q) = Canon(LogsDir)
                     /\ q # Canon(LogsDir)
                     /\ EndsWith(q, DotLog)
                     /\ f[q].kind # "dir"
                     /\ Split(q)[Len(Split(q))][1] # "."}

RECURSIVE SortedByMtimeDesc(_, _)
\* sorted(log_files, key=os.path.getmtime, reverse=True)
SortedByMtimeDesc(f, files) ==
    IF files = {} THEN <<>>
    ELSE LET newest == CHOOSE x \in files : \A y \in files : f[x].mtime >= f[y].mtime
         IN  <<newest>> \o SortedByMtimeDesc(f, files \ {newest})

Take(seq, n) == SubSeq(seq, 1, IF Len(seq) < n THEN Len(seq) ELSE n)

\* f.readline().strip()
FirstLine(data) == IF data = <<>> THEN <<>> ELSE Strip(data[1])

handle_recent_logs(f) ==
    LET recent_logs == Take(SortedByMtimeDesc(f, GlobLogs(f)), RECENT_LOGS_LIMIT)
        first_lines == [i \in 1..Len(recent_logs) |-> FirstLine(f[recent_logs[i]].data)]
    IN  WriteAndReturn(f, LogsRecentTxt, Join(first_lines, <<"\n">>),
                       [status |-> "success", logs_processed |-> Len(first_lines)])

(***************************************************************************)
(* A6: the first level-1 heading of every /data/docs/**/*.md, found with    *)
(* re.search(r'^#\s+(.+)$', content, re.MULTILINE).                         *)
(***************************************************************************)
\* glob.glob("/data/docs/**/*.md", recursive=True)
GlobMarkdown(f) ==
    {q \in DOMAIN f : /\ StartsWith(q, DocsDir)
                     /\ EndsWith(q, DotMd)
                     /\ f[q].kind # "dir"}

\* the match of #\s+(.+)$ that starts at p: the captured group, or <<>> for no match.
\* \s+ takes all the whitespace it can and gives back until (.+) has a character.
HeadingAt(content, p) ==
    LET n == Len(content)
        run == {k \in 1..(n - p) : \A d \in 1..k : content[p + d] \in Whitespace}
        ok == {k \in run : p + k + 1 <= n /\ content[p + k + 1] # "\n"}
    IN  IF ok = {} THEN <<>>
        ELSE LET k == CHOOSE x \in ok : \A y \in ok : y <= x
                 g == p + k + 1
                 nl == {i \in g..n : content[i] = "\n"}
                 last == IF nl = {} THEN n ELSE (CHOOSE i \in nl : \A j \in nl : i <= j) - 1
             IN  SubSeq(content, g, last)

\* match.group(1) of the first match in the document, <<>> when there is none
FirstHeading(content) ==
    LET starts == {p \in 1..Len(content) :
                      /\ content[p] = "#"
                      /\ (p = 1 \/ content[p - 1] = "\n")
                      /\ HeadingAt(content, p) # <<>>}
    IN  IF starts = {} THEN <<>>
        ELSE HeadingAt(content, CHOOSE p \in starts : \A q \in starts : p <= q)

\* os.path.relpath(md_file, "/data/docs/")
RelPath(md_file) == SubSeq(md_file, Len(DocsDir) + 1, Len(md_file))

handle_extract_headers(f) ==
    LET with_heading == {q \in GlobMarkdown(f) : FirstHeading(f[q].data) # <<>>}
        headers == {<<RelPath(q), FirstHeading(f[q].data)>> : q \in with_heading}
    IN  WriteAndReturn(f, DocsIndexJson, headers,
                       [status |-> "success", files_processed |-> Cardinality(headers)])

(***************************************************************************)
(* A10: SELECT SUM(units * price) FROM tickets WHERE type = 'Gold'          *)
(***************************************************************************)
RECURSIVE SumGold(_)
SumGold(rows) ==
    IF rows = <<>> THEN 0
    ELSE (IF rows[1].type = "Gold" THEN rows[1].units * rows[1].price ELSE 0)
         + SumGold(Tail(rows))

HasGold(rows) == \E i \in 1..Len(rows) : rows[i].type = "Gold"
NoneStr == <<"N", "o", "n", "e">>

handle_ticket_sales(f) ==
    IF ~Exists(f, TicketSalesDb)
    THEN Raises(HTTPException(404, <<"Database file not found: ">> \o TicketSalesDb), f)
    ELSE LET db == ReadData(f, TicketSalesDb)
         IN  IF ~db.ok
             THEN Raises(OtherError("sqlite3.OperationalError"), f)   \* no tickets table
             ELSE IF HasGold(db.value)
             THEN WriteAndReturn(f, TicketSalesGoldTxt, Str(SumGold(db.value)),
                                 [status |-> "success", total_sales |-> SumGold(db.value)])
             ELSE WriteAndReturn(f, TicketSalesGoldTxt, NoneStr,     \* SUM of no rows is NULL
                                 [status |-> "success", total_sales |-> "None"])

(***************************************************************************)
(* A7 and A8: the part before `await self.ai_proxy.get_completion(prompt)`  *)
(* and the part after it.  A reply of the provider is [status, ok, content].*)
(***************************************************************************)
\* AIProxy.get_completion, from the reply on: the text, or what it raises
get_completion(reply, f) ==
    IF reply.status # 200
    THEN Raises(HTTPException(500, <<"AI Proxy request failed">>), f)
    ELSE IF ~reply.ok
    THEN Raises(OtherError("KeyError"), f)       \* data['choices'][0]['message']['content']
    ELSE Returns(reply.content, f, {})

\* handle_extract_email up to the await: raises, or suspends (raised.exc = "none")
extract_email_before(f) ==
    IF ~Exists(f, EmailTxt)
    THEN Raises(HTTPException(404, <<"Input file not found: ">> \o EmailTxt), f)
    ELSE Returns(<<>>, f, {})

extract_email_after(reply, f) ==
    LET got == get_completion(reply, f)
    IN  IF got.raised.exc # "none" THEN got
        ELSE WriteAndReturn(f, EmailSenderTxt, Strip(got.result),
                            [status |-> "success", email |-> Strip(got.result)])

extract_card_before(f) ==
    IF ~Exists(f, CreditCardPng)
    THEN Raises(HTTPException(404, <<"Input file not found: ">> \o CreditCardPng), f)
    ELSE Returns(<<>>, f, {})

\* re.sub(r'\D', '', card_number)
RECURSIVE DigitsOnly(_)
DigitsOnly(s) ==
    IF s = <<>> THEN <<>>
    ELSE (IF IsDigit(s[1]) THEN <<s[1]>> ELSE <<>>) \o DigitsOnly(Tail(s))

extract_card_after(reply, f) ==
    LET got == get_completion(reply, f)
    IN  IF got.raised.exc # "none" THEN got
        ELSE WriteAndReturn(f, CreditCardTxt, DigitsOnly(got.result),
                            [status |-> "success", card_number |-> DigitsOnly(got.result)])

(***************************************************************************)
(* A1 and A2: the shelled-out processes.  subprocess.run returns when the   *)
(* process has ended; the handler continues from its return code.           *)
(***************************************************************************)
\* handle_datagen up to the first subprocess.run
datagen_before(email_set, f) ==
    IF ~email_set
    THEN Raises(HTTPException(400, <<"USER_EMAIL environment variable not set">>), f)
    ELSE Returns(<<>>, f, {})

\* curl -fsSL <url> -o /tmp/datagen.py has ended with returncode
datagen_after_download(returncode, f) ==
    IF returncode # 0
    THEN Raises(HTTPException(500, <<"Failed to download datagen.py">>), f)
    ELSE Returns(<<>>, WriteFile(f, TmpDatagenPy, <<"datagen.py">>), {TmpDatagenPy})

\* python /tmp/datagen.py <email> has ended with returncode
datagen_after_run(returncode, f) ==
    IF returncode # 0
    THEN Raises(HTTPException(500, <<"datagen.py execution failed">>), f)
    ELSE Returns([status |-> "success", output |-> "stdout"], f, {})

\* npx prettier@3.4.2 --write /data/format.md has ended with returncode
format_file_after(returncode, f) ==
    IF returncode # 0
    THEN Raises(HTTPException(500, <<"Prettier formatting failed">>), f)
    ELSE Returns([status |-> "success", output |-> "stdout"],
                 WriteFile(f, FormatMd, <<"formatted">>), {FormatMd})

T_datagen == <<"R", "u", "n", " ", "d", "a", "t", "a", "g", "e", "n">>
T_format ==
    <<"F", "o", "r", "m", "a", "t", " ", "w", "i", "t", "h", " ", "p", "r", "e", "t", "t", "i", "e", "r">>
T_wednesdays ==
    <<"C", "o", "u", "n", "t", " ", "W", "e", "d", "n", "e", "s", "d", "a", "y", "s", " ", "i", "n", " ", "d", "a", "t", "e", "s">>
T_sort == <<"S", "o", "r", "t", " ", "c", "o", "n", "t", "a", "c", "t", "s">>
T_logs == <<"r", "e", "c", "e", "n", "t", " ", "l", "o", "g", "s">>
T_headers == <<"e", "x", "t", "r", "a", "c", "t", " ", "h", "e", "a", "d", "e", "r", "s">>
T_email == <<"E", "x", "t", "r", "a", "c", "t", " ", "E", "m", "a", "i", "l">>
T_card == <<"e", "x", "t", "r", "a", "c", "t", " ", "c", "a", "r", "d">>
T_similar == <<"m", "o", "s", "t", " ", "s", "i", "m", "i", "l", "a", "r">>
T_tickets == <<"t", "i", "c", "k", "e", "t", " ", "s", "a", "l", "e", "s">>
T_unknown == <<"H", "e", "l", "l", "o">>
P_passwd == <<"/", "e", "t", "c", "/", "p", "a", "s", "s", "w", "d">>
P_missing ==
    <<"/", "d", "a", "t", "a", "/", "m", "i", "s", "s", "i", "n", "g", ".", "t", "x", "t">>
P_escape ==
    <<"/", "d", "a", "t", "a", "/", ".", ".", "/", "e", "t", "c", "/", "p", "a", "s", "s", "w", "d">>
P_log_a == <<"/", "d", "a", "t", "a", "/", "l", "o", "g", "s", "/", "a", ".", "l", "o", "g">>
P_log_b == <<"/", "d", "a", "t", "a", "/", "l", "o", "g", "s", "/", "b", ".", "l", "o", "g">>
P_doc_readme ==
    <<"/", "d", "a", "t", "a", "/", "d", "o", "c", "s", "/", "r", "e", "a", "d", "m", "e", ".", "m", "d">>
P_doc_notes ==
    <<"/", "d", "a", "t", "a", "/", "d", "o", "c", "s", "/", "s", "u", "b", "/", "n", "o", "t", "e", "s", ".", "m", "d">>
W_datagen == <<"d", "a", "t", "a", "g", "e", "n">>
W_generate_data == <<"G", "e", "n", "e", "r", "a", "t", "e", " ", "d", "a", "t", "a">>
W_format == <<"f", "o", "r", "m", "a", "t">>
W_prettier == <<"p", "r", "e", "t", "t", "i", "e", "r">>
W_wednesday == <<"W", "e", "d", "n", "e", "s", "d", "a", "y">>
W_dates == <<"d", "a", "t", "e", "s">>
W_Sort == <<"S", "o", "r", "t">>
W_contacts == <<"c", "o", "n", "t", "a", "c", "t", "s">>
W_recent_logs == <<"r", "e", "c", "e", "n", "t", " ", "l", "o", "g", "s">>
W_extract_headers ==
    <<"e", "x", "t", "r", "a", "c", "t", " ", "h", "e", "a", "d", "e", "r", "s">>
W_extract_email == <<"E", "x", "t", "r", "a", "c", "t", " ", "E", "m", "a", "i", "l">>
W_extract_card == <<"e", "x", "t", "r", "a", "c", "t", " ", "c", "a", "r", "d">>
W_most_similar == <<"m", "o", "s", "t", " ", "s", "i", "m", "i", "l", "a", "r">>
W_similar_comments ==
    <<"s", "i", "m", "i", "l", "a", "r", " ", "c", "o", "m", "m", "e", "n", "t", "s">>
W_ticket_sales == <<"t", "i", "c", "k", "e", "t", " ", "s", "a", "l", "e", "s">>
D_wed3 == <<"2", "0", "2", "4", "-", "0", "1", "-", "0", "3">>
D_wed10 == <<"2", "0", "2", "4", "-", "0", "1", "-", "1", "0">>
D_thu == <<"2", "0", "2", "4", "-", "0", "1", "-", "0", "4">>
D_word == <<"n", "o", "t", "-", "a", "-", "d", "a", "t", "e">>
D_feb30 == <<"2", "0", "2", "4", "-", "0", "2", "-", "3", "0">>
D_short == <<"2", "0", "2", "4", "-", "1", "-", "3">>
D_trail == <<"2", "0", "2", "4", "-", "0", "1", "-", "0", "3", "x">>
D_year0 == <<"0", "0", "0", "0", "-", "0", "1", "-", "0", "5">>
C_hello_world == <<"h", "e", "l", "l", "o", " ", "w", "o", "r", "l", "d">>
C_hello_world_bang == <<"h", "e", "l", "l", "o", " ", "w", "o", "r", "l", "d", "!">>
C_goodbye == <<"g", "o", "o", "d", "b", "y", "e">>
L_log_a == <<"f", "i", "r", "s", "t", " ", "o", "f", " ", "a">>
L_log_b == <<"f", "i", "r", "s", "t", " ", "o", "f", " ", "b">>
M_title == <<"#", " ", "T", "i", "t", "l", "e">>
M_intro == <<"i", "n", "t", "r", "o">>
E_reply == <<" ", "a", "@", "b", ".", "c">>
N_reply == <<"4", "1", " ", "1", "-", "2">>
(***************************************************************************)
(* File systems the service starts on, and what clients send.               *)
(***************************************************************************)
RootDir == <<"/">>
DataDir == <<"/", "d", "a", "t", "a">>
TmpDir == <<"/", "t", "m", "p">>
EtcDir == <<"/", "e", "t", "c">>
DocsSubDir == <<"/", "d", "a", "t", "a", "/", "d", "o", "c", "s", "/", "s", "u", "b">>

LogFile(lines, mtime) == [kind |-> "text", data |-> lines, mtime |-> mtime]
BinaryFile(data) == [kind |-> "binary", data |-> data, mtime |-> 0]

\* the function with the given set of <<path, entry>> pairs
FsOf(entries) ==
    [q \in {e[1] : e \in entries} |-> (CHOOSE e \in entries : e[1] = q)[2]]

\* f with path set to entry
FsWith(f, path, entry) ==
    [q \in DOMAIN f \cup {Canon(path)} |-> IF q = Canon(path) THEN entry ELSE f[q]]

FsBare ==
    FsOf({<<RootDir, Directory>>, <<DataDir, Directory>>, <<TmpDir, Directory>>,
          <<EtcDir, Directory>>, <<P_passwd, TextFile(<<"root">>)>>})

SampleContacts ==
    <<[first_name |-> <<"B">>, last_name |-> <<"Z">>],
      [first_name |-> <<"A">>, last_name |-> <<"A">>]>>

SampleTickets ==
    <<[type |-> "Gold", units |-> 2, price |-> 5],
      [type |-> "Silver", units |-> 1, price |-> 3],
      [type |-> "Gold", units |-> 1, price |-> 4]>>

FsPopulated ==
    FsOf({<<q, FsBare[q]>> : q \in DOMAIN FsBare} \cup
         {<<FormatMd, TextFile(<<"unformatted">>)>>,
          <<DatesTxt, TextFile(<<D_wed3 \o <<"\n">>, D_word \o <<"\n">>, D_wed10>>)>>,
          <<ContactsJson, TextFile([ok |-> TRUE, value |-> SampleContacts])>>,
          <<Canon(LogsDir), Directory>>,
          <<P_log_a, LogFile(<<L_log_a \o <<"\n">>, M_intro>>, 1)>>,
          <<P_log_b, LogFile(<<L_log_b \o <<"\n">>>>, 2)>>,
          <<Canon(DocsDir), Directory>>,
          <<DocsSubDir, Directory>>,
          <<P_doc_readme, TextFile(M_intro \o <<"\n">> \o M_title \o <<"\n">>)>>,
          <<P_doc_notes, TextFile(M_intro)>>,
          <<EmailTxt, TextFile(<<"From: a@b.c">>)>>,
          <<CreditCardPng, BinaryFile(<<"png">>)>>,
          <<CommentsTxt, TextFile(<<C_hello_world \o <<"\n">>, C_hello_world_bang \o <<"\n">>,
                                    <<"\n">>, C_goodbye>>)>>,
          <<TicketSalesDb, BinaryFile([ok |-> TRUE, value |-> SampleTickets])>>})

\* inputs that are there and of no use: one comment, no JSON, no tickets table
FsDegenerate ==
    FsOf({<<q, FsBare[q]>> : q \in DOMAIN FsBare} \cup
         {<<DatesTxt, TextFile(<<>>)>>,
          <<ContactsJson, TextFile([ok |-> FALSE, value |-> <<>>])>>,
          <<Canon(LogsDir), Directory>>,
          <<EmailTxt, TextFile(<<>>)>>,
          <<CreditCardPng, BinaryFile(<<"png">>)>>,
          <<CommentsTxt, TextFile(<<C_goodbye \o <<"\n">>, <<" ", "\n">>>>)>>,
          <<TicketSalesDb, BinaryFile([ok |-> FALSE, value |-> <<>>])>>})

SampleTasks == {T_datagen, T_format, T_wednesdays, T_sort, T_logs, T_headers, T_email,
                T_card, T_similar, T_tickets, T_unknown}

SamplePaths == {DatesTxt, DatesWednesdaysTxt, LogsDir, CreditCardPng, P_missing,
                P_passwd, P_escape, TmpDatagenPy}

\* what the completion provider can answer when it answers `content`
Replies(content) ==
    {[status |-> 200, ok |-> TRUE, content |-> content],
     [status |-> 200, ok |-> FALSE, content |-> <<>>],
     [status |-> 500, ok |-> FALSE, content |-> <<>>]}

(***************************************************************************)
(* The server: request slots on one event loop.                             *)
(***************************************************************************)
VARIABLES
    fs,          \* the file system
    user_email,  \* whether os.environ has a non-empty USER_EMAIL
    pc,          \* per request: "idle", "pending", where it is suspended, "done"
    req,         \* per request: the endpoint and its task or path parameter
    resp,        \* per request: the HTTP response
    raised,      \* per request: what handle_task raised into run_task
    written,     \* per request: the paths it has created or modified
    opened,      \* per request: the paths read_file has passed to open()
    invoked,     \* per request: the handlers handle_task has called
    loop         \* the request whose blocking call holds the event loop thread, or 0

vars == <<fs, user_email, pc, req, resp, raised, written, opened, invoked, loop>>

Requests == 1..NumRequests
ReturnCodes == {0, 1}

NoRequest == [endpoint |-> "none", arg |-> <<>>]
NoResponse == [status_code |-> 0, body |-> <<>>]
NoException == [exc |-> "none", status_code |-> 0, detail |-> <<>>]

Suspended == {"curl", "datagen.py", "prettier", "get_completion.email", "get_completion.card"}

\* str(e)
ExcStr(e) ==
    IF e.exc = "HTTPException" THEN Str(e.status_code) \o <<":", " ">> \o e.detail
    ELSE e.detail

\* run_task: what it answers when handle_task has returned or raised.
\* HTTPException is an Exception and no ValueError: the last clause takes it.
run_task_response(outcome) ==
    IF outcome.raised.exc = "none"
    THEN [status_code |-> 200, body |-> [status |-> "success", result |-> outcome.result]]
    ELSE IF outcome.raised.exc = "ValueError"
    THEN [status_code |-> 400, body |-> [detail |-> ExcStr(outcome.raised)]]
    ELSE [status_code |-> 500, body |-> [detail |-> ExcStr(outcome.raised)]]

\* a faulty variant: the existence test before the prefix test
read_file_response_exists_first(f, path) ==
    IF ~Exists(f, path)
    THEN [status_code |-> 404, body |-> [detail |-> <<"File not found: ">> \o path],
          opened |-> FALSE]
    ELSE IF ~StartsWith(path, DataRoot)
    THEN [status_code |-> 400,
          body |-> [detail |-> <<"Access denied: Path must be within /data directory">>],
          opened |-> FALSE]
    ELSE IF ~Readable(f, path)
    THEN [status_code |-> 500, body |-> [detail |-> <<"Exception">>], opened |-> TRUE]
    ELSE [status_code |-> 200, body |-> ReadData(f, path), opened |-> TRUE]

\* read_file: the response and whether open() was reached
read_file_response(f, path) ==
    IF ~StartsWith(path, DataRoot)
    THEN [status_code |-> 400,
          body |-> [detail |-> <<"Access denied: Path must be within /data directory">>],
          opened |-> FALSE]
    ELSE IF ~Exists(f, path)
    THEN [status_code |-> 404, body |-> [detail |-> <<"File not found: ">> \o path],
          opened |-> FALSE]
    ELSE IF ~Readable(f, path)     \* IsADirectoryError, UnicodeDecodeError: except Exception
    THEN [status_code |-> 500, body |-> [detail |-> <<"Exception">>], opened |-> TRUE]
    ELSE [status_code |-> 200, body |-> ReadData(f, path), opened |-> TRUE]

\* the event loop takes up a pending /run request whose task handle_task routes to h
Begin(r, h) ==
    /\ pc[r] = "pending"
    /\ req[r].endpoint = "run"
    /\ loop = 0
    /\ handle_task(req[r].arg) = h

Invoke(r, h) == invoked' = [invoked EXCEPT ![r] = Append(@, h)]

\* the handler has returned or raised: run_task answers
Complete(r, outcome) ==
    /\ fs' = outcome.fs
    /\ pc' = [pc EXCEPT ![r] = "done"]
    /\ resp' = [resp EXCEPT ![r] = run_task_response(outcome)]
    /\ raised' = [raised EXCEPT ![r] = outcome.raised]
    /\ written' = [written EXCEPT ![r] = @ \cup outcome.writes]
    /\ loop' = 0
    /\ UNCHANGED <<user_email, req, opened>>

\* the handler stops at `where`; a subprocess.run keeps the event loop thread
Suspend(r, outcome, where, blocking) ==
    /\ fs' = outcome.fs
    /\ pc' = [pc EXCEPT ![r] = where]
    /\ written' = [written EXCEPT ![r] = @ \cup outcome.writes]
    /\ loop' = IF blocking THEN r ELSE 0
    /\ UNCHANGED <<user_email, req, resp, raised, opened>>

CompleteOrSuspend(r, outcome, where, blocking) ==
    IF outcome.raised.exc # "none" THEN Complete(r, outcome)
    ELSE Suspend(r, outcome, where, blocking)

(***************************************************************************)
(* Actions.                                                                 *)
(***************************************************************************)
\* a client sends POST /run?task=...
submit_run(r) ==
    /\ pc[r] = "idle"
    /\ \E task \in SampleTasks : req' = [req EXCEPT ![r] = [endpoint |-> "run", arg |-> task]]
    /\ pc' = [pc EXCEPT ![r] = "pending"]
    /\ UNCHANGED <<fs, user_email, resp, raised, written, opened, invoked, loop>>

\* a client sends GET /read?path=...
submit_read(r) ==
    /\ pc[r] = "idle"
    /\ \E path \in SamplePaths : req' = [req EXCEPT ![r] = [endpoint |-> "read", arg |-> path]]
    /\ pc' = [pc EXCEPT ![r] = "pending"]
    /\ UNCHANGED <<fs, user_email, resp, raised, written, opened, invoked, loop>>

run_unknown_task(r) ==
    /\ Begin(r, "ValueError")
    /\ Complete(r, Raises(ValueError(UnknownTaskPrefix \o req[r].arg), fs))
    /\ UNCHANGED invoked

run_datagen(r) ==
    /\ Begin(r, "handle_datagen")
    /\ Invoke(r, "handle_datagen")
    /\ CompleteOrSuspend(r, datagen_before(user_email, fs), "curl", TRUE)

curl_exit(r) ==
    /\ pc[r] = "curl"
    /\ loop = r
    /\ \E returncode \in ReturnCodes :
          CompleteOrSuspend(r, datagen_after_download(returncode, fs), "datagen.py", TRUE)
    /\ UNCHANGED invoked

datagen_exit(r) ==
    /\ pc[r] = "datagen.py"
    /\ loop = r
    /\ \E returncode \in ReturnCodes : Complete(r, datagen_after_run(returncode, fs))
    /\ UNCHANGED invoked

run_format_file(r) ==
    /\ Begin(r, "handle_format_file")
    /\ Invoke(r, "handle_format_file")
    /\ Suspend(r, Returns(<<>>, fs, {}), "prettier", TRUE)

prettier_exit(r) ==
    /\ pc[r] = "prettier"
    /\ loop = r
    /\ \E returncode \in ReturnCodes :
          /\ returncode = 0 => Readable(fs, FormatMd)
          /\ Complete(r, format_file_after(returncode, fs))
    /\ UNCHANGED invoked

run_count_wednesdays(r) ==
    /\ Begin(r, "handle_count_wednesdays")
    /\ Invoke(r, "handle_count_wednesdays")
    /\ Complete(r, handle_count_wednesdays(fs))

run_sort_contacts(r) ==
    /\ Begin(r, "handle_sort_contacts")
    /\ Invoke(r, "handle_sort_contacts")
    /\ Complete(r, handle_sort_contacts(fs))

run_recent_logs(r) ==
    /\ Begin(r, "handle_recent_logs")
    /\ Invoke(r, "handle_recent_logs")
    /\ Complete(r, handle_recent_logs(fs))

run_extract_headers(r) ==
    /\ Begin(r, "handle_extract_headers")
    /\ Invoke(r, "handle_extract_headers")
    /\ Complete(r, handle_extract_headers(fs))

run_extract_email(r) ==
    /\ Begin(r, "handle_extract_email")
    /\ Invoke(r, "handle_extract_email")
    /\ CompleteOrSuspend(r, extract_email_before(fs), "get_completion.email", FALSE)

completion_email(r) ==
    /\ pc[r] = "get_completion.email"
    /\ loop = 0
    /\ \E reply \in Replies(E_reply) : Complete(r, extract_email_after(reply, fs))
    /\ UNCHANGED invoked

run_extract_card(r) ==
    /\ Begin(r, "handle_extract_card")
    /\ Invoke(r, "handle_extract_card")
    /\ CompleteOrSuspend(r, extract_card_before(fs), "get_completion.card", FALSE)

completion_card(r) ==
    /\ pc[r] = "get_completion.card"
    /\ loop = 0
    /\ \E reply \in Replies(N_reply) : Complete(r, extract_card_after(reply, fs))
    /\ UNCHANGED invoked

run_similar_comments(r) ==
    /\ Begin(r, "handle_similar_comments")
    /\ Invoke(r, "handle_similar_comments")
    /\ Complete(r, handle_similar_comments(fs))

run_ticket_sales(r) ==
    /\ Begin(r, "handle_ticket_sales")
    /\ Invoke(r, "handle_ticket_sales")
    /\ Complete(r, handle_ticket_sales(fs))

read_file(r) ==
    /\ pc[r] = "pending"
    /\ req[r].endpoint = "read"
    /\ loop = 0
    /\ LET answer == read_file_response(fs, req[r].arg)
       IN  /\ resp' = [resp EXCEPT ![r] = [status_code |-> answer.status_code,
                                           body |-> answer.body]]
           /\ opened' = [opened EXCEPT ![r] = IF answer.opened THEN @ \cup {req[r].arg} ELSE @]
    /\ pc' = [pc EXCEPT ![r] = "done"]
    /\ UNCHANGED <<fs, user_email, req, raised, written, invoked, loop>>

\* the steps that start or resume a /run request
Dispatch(r) ==
    \/ run_unknown_task(r)
    \/ run_datagen(r)
    \/ run_format_file(r)
    \/ run_count_wednesdays(r)
    \/ run_sort_contacts(r)
    \/ run_recent_logs(r)
    \/ run_extract_headers(r)
    \/ run_extract_email(r)
    \/ run_extract_card(r)
    \/ run_similar_comments(r)
    \/ run_ticket_sales(r)

Resume(r) ==
    \/ curl_exit(r)
    \/ datagen_exit(r)
    \/ prettier_exit(r)
    \/ completion_email(r)
    \/ completion_card(r)

Quiet ==
    /\ pc = [r \in Requests |-> "idle"]
    /\ req = [r \in Requests |-> NoRequest]
    /\ resp = [r \in Requests |-> NoResponse]
    /\ raised = [r \in Requests |-> NoException]
    /\ written = [r \in Requests |-> {}]
    /\ opened = [r \in Requests |-> {}]
    /\ invoked = [r \in Requests |-> <<>>]
    /\ loop = 0

\* request 1 is pending, the others are idle
Pending(request) ==
    /\ pc = [r \in Requests |-> IF r = 1 THEN "pending" ELSE "idle"]
    /\ req = [r \in Requests |-> IF r = 1 THEN request ELSE NoRequest]
    /\ resp = [r \in Requests |-> NoResponse]
    /\ raised = [r \in Requests |-> NoException]
    /\ written = [r \in Requests |-> {}]
    /\ opened = [r \in Requests |-> {}]
    /\ invoked = [r \in Requests |-> <<>>]
    /\ loop = 0

Init ==
    /\ fs \in {FsBare, FsPopulated, FsDegenerate}
    /\ user_email \in BOOLEAN
    /\ Quiet

Next ==
    \E r \in Requests :
        submit_run(r) \/ submit_read(r) \/ Dispatch(r) \/ Resume(r) \/ read_file(r)

Spec == Init /\ [][Next]_vars

(***************************************************************************)
(* GET /read alone, over the three file systems.                            *)
(***************************************************************************)
InitRead ==
    /\ fs \in {FsBare, FsPopulated, FsDegenerate}
    /\ user_email = TRUE
    /\ Quiet

NextRead == \E r \in Requests : submit_read(r) \/ read_file(r)

SpecRead == InitRead /\ [][NextRead]_vars

(***************************************************************************)
(* The dispatcher over task texts: up to MaxWords phrases of the            *)
(* vocabulary, joined by blanks, one POST /run pending.                     *)
(***************************************************************************)
Vocabulary ==
    {W_datagen, W_generate_data, W_format, W_prettier, W_wednesday, W_dates, W_Sort,
     W_contacts, W_recent_logs, W_extract_headers,
     W_extract_email, W_extract_card, W_most_similar, W_similar_comments,
     W_ticket_sales}

SeqsUpTo(S, n) == UNION {[1..k -> S] : k \in 0..n}

TaskTexts == {Join(words, <<" ">>) : words \in SeqsUpTo(Vocabulary, MaxWords)}

InitDispatch ==
    /\ fs = FsPopulated
    /\ user_email = TRUE
    /\ \E task \in TaskTexts : Pending([endpoint |-> "run", arg |-> task])

NextDispatch == \E r \in Requests : Dispatch(r)

SpecDispatch == InitDispatch /\ [][NextDispatch]_vars

(***************************************************************************)
(* The sort-contacts handler over arrays of up to MaxContacts contacts.     *)
(* A field is given as the empty set (the key is missing) or {value}.       *)
(***************************************************************************)
Field(name, opt) == IF opt = {} THEN <<>> ELSE name :> (CHOOSE v \in opt : TRUE)

ContactPool ==
    {Field("last_name", last) @@ Field("first_name", first) :
        last \in {{}, {<<>>}, {<<"a">>}, {<<"a", "b">>}},
        first \in {{}, {<<"a">>}, {<<"B">>}}}

InitSort ==
    /\ \E contacts \in SeqsUpTo(ContactPool, MaxContacts) :
          fs = FsWith(FsBare, ContactsJson, TextFile([ok |-> TRUE, value |-> contacts]))
    /\ user_email = TRUE
    /\ Pending([endpoint |-> "run", arg |-> T_sort])

NextSort == \E r \in Requests : run_sort_contacts(r)

SpecSort == InitSort /\ [][NextSort]_vars

(***************************************************************************)
(* The similar-comments handler over files of up to MaxComments raw lines   *)
(* of up to MaxLineLen characters, each ended by a newline.                 *)
(***************************************************************************)
CommentAlphabet == {"a", "b", " "}

RawCommentLines == {line \o <<"\n">> : line \in SeqsUpTo(CommentAlphabet, MaxLineLen)}

InitSimilar ==
    /\ \E lines \in SeqsUpTo(RawCommentLines, MaxComments) :
          fs = FsWith(FsBare, CommentsTxt, TextFile(lines))
    /\ user_email = TRUE
    /\ Pending([endpoint |-> "run", arg |-> T_similar])

NextSimilar == \E r \in Requests : run_similar_comments(r)

SpecSimilar == InitSimilar /\ [][NextSimilar]_vars

(***************************************************************************)
(* The count-Wednesdays handler over files of up to MaxLines raw lines,     *)
(* each ended by a newline as `for line in f` yields them.                  *)
(***************************************************************************)
RawDateLines ==
    {D_wed3 \o <<"\n">>, D_wed10 \o <<"\n">>, <<" ">> \o D_wed10 \o <<" ", "\n">>,
     D_thu \o <<"\n">>,
     D_word \o <<"\n">>, <<"\n">>, D_feb30 \o <<"\n">>, D_short \o <<"\n">>,
     D_trail \o <<"\n">>, D_year0 \o <<"\n">>}

InitDates ==
    /\ \E lines \in SeqsUpTo(RawDateLines, MaxLines) :
          fs = FsWith(FsBare, DatesTxt, TextFile(lines))
    /\ user_email = TRUE
    /\ Pending([endpoint |-> "run", arg |-> T_wednesdays])

NextDates == \E r \in Requests : run_count_wednesdays(r)

SpecDates == InitDates /\ [][NextDates]_vars

(***************************************************************************)
(* Properties.                                                              *)
(***************************************************************************)
Done(r) == pc[r] = "done"
Ran(r) == Done(r) /\ req[r].endpoint = "run"
Dispatched(r) == pc[r] \notin {"idle", "pending"} /\ req[r].endpoint = "run"

Min(S) == CHOOSE x \in S : \A y \in S : x <= y

\* C1: a /run request answers 4xx when the dispatcher raised UnknownTask or the
\* handler raised a validation failure (a ValueError, an HTTPException with status
\* 400), 500 on every other failure, and 200 with {status: "success", result}
\* when the handler returned.
ErrorMapping ==
    \A r \in Requests :
        Ran(r) =>
            IF raised[r].exc = "none"
            THEN resp[r].status_code = 200 /\ resp[r].body.status = "success"
            ELSE IF \/ raised[r].exc = "ValueError"
                    \/ raised[r].exc = "HTTPException" /\ raised[r].status_code = 400
            THEN resp[r].status_code \in 400..499
            ELSE resp[r].status_code = 500

\* the ordered list of the spec: handler and its keyword sets, any one of which
\* has to be contained whole
Registry ==
    << <<"handle_datagen", {{K_datagen}, {K_generate_data}}>>,
       <<"handle_format_file", {{K_format, K_prettier}}>>,
       <<"handle_count_wednesdays", {{K_wednesday, K_date}}>>,
       <<"handle_sort_contacts", {{K_sort_contacts}}>>,
       <<"handle_recent_logs", {{K_recent_logs}}>>,
       <<"handle_extract_headers", {{K_extract_headers}}>>,
       <<"handle_extract_email", {{K_extract_email}}>>,
       <<"handle_extract_card", {{K_extract_card}}>>,
       <<"handle_similar_comments", {{K_similar_comments}, {K_most_similar}}>>,
       <<"handle_ticket_sales", {{K_ticket_sales}}>> >>

Hits(text) ==
    LET lowered == Lower(text)
    IN  {i \in 1..Len(Registry) :
            \E keywords \in Registry[i][2] : \A kw \in keywords : Contains(lowered, kw)}

FirstMatchWins ==
    \A r \in Requests :
        /\ pc[r] \in {"idle", "pending"} => invoked[r] = <<>>
        /\ Dispatched(r) =>
              LET hits == Hits(req[r].arg)
              IN  IF hits = {}
                  THEN /\ invoked[r] = <<>>
                       /\ Done(r)
                       /\ resp[r].status_code = 400
                       /\ resp[r].body.detail = UnknownTaskPrefix \o req[r].arg
                  ELSE invoked[r] = <<Registry[Min(hits)][1]>>

\* a text matching several predicates went to the first of them
FirstMatchWitness ==
    \E r \in Requests :
        /\ Dispatched(r)
        /\ Cardinality(Hits(req[r].arg)) >= 2
        /\ Min(Hits(req[r].arg)) > 1
        /\ invoked[r] = <<Registry[Min(Hits(req[r].arg))][1]>>
        /\ req[r].arg # Lower(req[r].arg)

NoPartialSuccess ==
    \A r \in Requests : Ran(r) => (resp[r].status_code = 200 \/ written[r] = {})

\* C6: every path a request has written starts with "/data/".
WritesStayUnderData ==
    \A r \in Requests : \A path \in written[r] : StartsWith(path, DataRoot)

\* C7: with at least 2 comments the file holds comments[i] and comments[j], i < j,
\* of maximal ratio, the first such pair in scan order, and the summary holds that
\* ratio; with fewer the handler raises the 400 HTTPException.
RatioEqual(r1, r2) == r1[1] * r2[2] = r2[1] * r1[2]

IsFirstBestPair(comments, i, j) ==
    \A k \in 1..Len(comments) : \A l \in (k + 1)..Len(comments) :
        /\ ~RatioGreater(ratio(comments[k], comments[l]), ratio(comments[i], comments[j]))
        /\ RatioEqual(ratio(comments[k], comments[l]), ratio(comments[i], comments[j]))
              => (i < k \/ (i = k /\ j <= l))

MostSimilarPairWritten ==
    \A r \in Requests :
        (Ran(r) /\ invoked[r] = <<"handle_similar_comments">> /\ Exists(fs, CommentsTxt)) =>
            LET comments == NonEmptyStripped(ReadData(fs, CommentsTxt))
            IN  IF Len(comments) < 2
                THEN raised[r].exc = "HTTPException" /\ raised[r].status_code = 400
                ELSE /\ resp[r].status_code = 200
                     /\ \E i \in 1..Len(comments) : \E j \in (i + 1)..Len(comments) :
                           /\ IsFirstBestPair(comments, i, j)
                           /\ ReadData(fs, CommentsSimilarTxt)
                                = comments[i] \o <<"\n">> \o comments[j]
                           /\ resp[r].body.result.similarity_ratio
                                = ratio(comments[i], comments[j])

\* C8: while a request is suspended in a provider call or in a shelled-out
\* process, a pending request of another client can be taken up.
SuspensionIsRequestLocal ==
    \A r, q \in Requests :
        (r # q /\ pc[r] \in Suspended /\ pc[q] = "pending")
        => ENABLED (read_file(q) \/ Dispatch(q))

\* C9: contacts-sorted.json holds a permutation of the input in non-decreasing
\* order of (last_name, first_name), a missing field counting as '', contacts of
\* equal key in their input order; the summary count is the input length.
ContactKey(c) ==
    <<IF "last_name" \in DOMAIN c THEN c["last_name"] ELSE <<>>,
      IF "first_name" \in DOMAIN c THEN c["first_name"] ELSE <<>> >>

Occurrences(seq, x) == Cardinality({i \in 1..Len(seq) : seq[i] = x})

RECURSIVE WithKey(_, _)
WithKey(seq, key) ==
    IF seq = <<>> THEN <<>>
    ELSE (IF ContactKey(seq[1]) = key THEN <<seq[1]>> ELSE <<>>) \o WithKey(Tail(seq), key)

TupleLeq(k1, k2) ==
    \/ k1 = k2
    \/ StrLess(k1[1], k2[1])
    \/ k1[1] = k2[1] /\ StrLess(k1[2], k2[2])

SortedContactsWritten ==
    \A r \in Requests :
        (Ran(r) /\ invoked[r] = <<"handle_sort_contacts">>) =>
            LET input == json_value(ReadData(fs, ContactsJson))
                output == ReadData(fs, ContactsSortedJson)
            IN  /\ resp[r].status_code = 200
                /\ Len(output) = Len(input)
                /\ \A i \in 1..Len(input) :
                      Occurrences(output, input[i]) = Occurrences(input, input[i])
                /\ \A i \in 1..(Len(output) - 1) :
                      TupleLeq(ContactKey(output[i]), ContactKey(output[i + 1]))
                /\ \A i \in 1..Len(input) :
                      WithKey(output, ContactKey(input[i])) = WithKey(input, ContactKey(input[i]))
                /\ resp[r].body.result.contacts_sorted = Len(input)

\* an input out of order, with two different contacts of one key, was sorted
SortedContactsWitness ==
    \E r \in Requests :
        /\ Ran(r) /\ invoked[r] = <<"handle_sort_contacts">>
        /\ ReadData(fs, ContactsSortedJson) # json_value(ReadData(fs, ContactsJson))
        /\ \E i, j \in 1..Len(json_value(ReadData(fs, ContactsJson))) :
              LET input == json_value(ReadData(fs, ContactsJson))
              IN  i < j /\ input[i] # input[j] /\ ContactKey(input[i]) = ContactKey(input[j])

\* C10: dates-wednesdays.txt and the summary hold the number of lines that are a
\* %Y-%m-%d rendering of a date that is a Wednesday; other lines are skipped and
\* the request succeeds.
Pad2(n) == IF n < 10 THEN <<"0">> \o Str(n) ELSE Str(n)

MonthRenderings(m) == {Pad2(m)} \cup (IF m < 10 THEN {Str(m)} ELSE {})
DayRenderings(d) == {Pad2(d)} \cup (IF d < 10 THEN {Str(d), <<" ">> \o Str(d)} ELSE {})

\* Sakamoto's day of the week: 0 is Sunday, 3 is Wednesday
DayOfWeek(y, m, d) ==
    LET t == <<0, 3, 2, 5, 0, 3, 5, 1, 4, 6, 2, 4>>
        yy == IF m < 3 THEN y - 1 ELSE y
    IN  (yy + (yy \div 4) - (yy \div 100) + (yy \div 400) + t[m] + d) % 7

CalendarYears == 2023..2025

DaysOf(y, m) ==
    IF m \in {4, 6, 9, 11} THEN 30
    ELSE IF m # 2 THEN 31
    ELSE IF y % 400 = 0 \/ (y % 4 = 0 /\ y % 100 # 0) THEN 29 ELSE 28

IsWednesdayLine(raw) ==
    LET line == Strip(raw)
    IN  \E y \in CalendarYears :
            /\ Len(line) > 4
            /\ SubSeq(line, 1, 4) = Str(y)
            /\ \E m \in 1..12 : \E d \in 1..DaysOf(y, m) :
                  /\ DayOfWeek(y, m, d) = 3
                  /\ \E mm \in MonthRenderings(m) : \E dd \in DayRenderings(d) :
                        line = Str(y) \o <<"-">> \o mm \o <<"-">> \o dd

WednesdaysCounted ==
    \A r \in Requests :
        (Ran(r) /\ invoked[r] = <<"handle_count_wednesdays">>) =>
            LET lines == ReadData(fs, DatesTxt)
                expected == Cardinality({i \in 1..Len(lines) : IsWednesdayLine(lines[i])})
            IN  /\ resp[r].status_code = 200
                /\ resp[r].body.result.wednesdays_count = expected
                /\ Int_(ReadData(fs, DatesWednesdaysTxt)) = expected
                /\ ReadData(fs, DatesWednesdaysTxt) = Str(expected)

\* the lines 2024-01-03, not-a-date, 2024-01-10 were counted as 2
WednesdaysWitness ==
    \E r \in Requests :
        /\ Ran(r) /\ invoked[r] = <<"handle_count_wednesdays">>
        /\ ReadData(fs, DatesTxt)
             = <<D_wed3 \o <<"\n">>, D_word \o <<"\n">>, D_wed10 \o <<"\n">>>>
        /\ ReadData(fs, DatesWednesdaysTxt) = <<"2">>

=============================================================================
